---------------------------- MODULE Spec2Model ----------------------------
(***************************************************************************)
(* Model of japan_days_counter.py: the rolling 365-day window day counter  *)
(* (days_in_rolling_window), its two callers (main, create_visualization)  *)
(* and the CSV loader that feeds it.                                       *)
(*                                                                         *)
(* A calendar date (datetime.date) is modelled by its proleptic Gregorian  *)
(* ordinal, the number date.toordinal() returns; date comparison is        *)
(* comparison of ordinals and date - timedelta(days=n) is subtraction.     *)
(* The text form of a date ("%Y-%m-%d") is modelled by the triple          *)
(* <<year, month, day>>; Strptime and Strftime convert between the two.    *)
(***************************************************************************)
EXTENDS Integers, Sequences, FiniteSets

VARIABLES
    clock,          \* the wall clock's current date (an ordinal)
    ticks,          \* how many times the clock has advanced (bounds the model)
    file,           \* rows of the CSV file: <<entry text, exit text>>
    pc,             \* position of main
    trips,          \* main's local `trips`
    days_used,      \* main's local `days_used`
    start_window,   \* main's local `start_window`
    days_remaining, \* main's local `days_remaining`
    reference_date, \* main's local `reference_date`
    stdout,         \* what main has printed
    frames,         \* activations of days_in_rolling_window, by call site
    viz_days_used,          \* create_visualization's local `days_used`
    viz_past_window_start,  \* create_visualization's local `past_window_start`
    summary_text    \* the summary text create_visualization has drawn

vars == <<clock, ticks, file, pc, trips, days_used, start_window,
          days_remaining, reference_date, stdout, frames, viz_days_used,
          viz_past_window_start, summary_text>>

mainVars == <<clock, ticks, file, pc, trips, days_used, start_window,
              days_remaining, reference_date, stdout, viz_days_used,
              viz_past_window_start, summary_text>>

-----------------------------------------------------------------------------
(* Bounds of the model *)

\* longest CSV file / trip list explored
MaxTrips == 2

\* how many days the wall clock may advance during one run
MaxTicks == 1

-----------------------------------------------------------------------------
(* Program constants *)

\* MAX_DAYS = 180
MAX_DAYS == 180

\* timedelta(days=365)
WINDOW_DAYS == 365

\* the default of the parameter reference_date; no date has ordinal 0
None == 0

-----------------------------------------------------------------------------
(* Calendar dates: text <-> date, as datetime does it *)

IsLeap(y) == (y % 4 = 0) /\ ((y % 100 # 0) \/ (y % 400 = 0))

DaysInMonth(y, m) ==
    IF m = 2 THEN (IF IsLeap(y) THEN 29 ELSE 28)
    ELSE IF m \in {4, 6, 9, 11} THEN 30 ELSE 31

DaysBeforeYear(y) ==
    (y - 1) * 365 + ((y - 1) \div 4) - ((y - 1) \div 100) + ((y - 1) \div 400)

RECURSIVE DaysBeforeMonth(_, _)
DaysBeforeMonth(y, m) ==
    IF m = 1 THEN 0 ELSE DaysBeforeMonth(y, m - 1) + DaysInMonth(y, m - 1)

\* datetime.strptime(text, "%Y-%m-%d").date(): the date a text names
Strptime(ymd) == DaysBeforeYear(ymd[1]) + DaysBeforeMonth(ymd[1], ymd[2]) + ymd[3]

RECURSIVE YearOf(_, _)
YearOf(n, y) == IF DaysBeforeYear(y + 1) < n THEN YearOf(n, y + 1) ELSE y

RECURSIVE MonthOf(_, _, _)
MonthOf(n, y, m) ==
    IF DaysBeforeMonth(y, m) + DaysInMonth(y, m) < n THEN MonthOf(n, y, m + 1) ELSE m

\* date.strftime('%Y-%m-%d'): the text of a date
Strftime(n) ==
    LET y == YearOf(n, ((n - 1) \div 366) + 1)
        r == n - DaysBeforeYear(y)
        m == MonthOf(r, y, 1)
    IN  <<y, m, r - DaysBeforeMonth(y, m)>>

Max(a, b) == IF a >= b THEN a ELSE b

Min(a, b) == IF a <= b THEN a ELSE b

-----------------------------------------------------------------------------
(* The inputs explored *)

\* the day the run starts on
Today0 == Strptime(<<2024, 1, 1>>)

\* dates around the two ends of the window that ends on Today0, and the
\* date that completes MAX_DAYS + 1 days in it, as offsets from its first day
DateOffsets == {-1, 0, 1, MAX_DAYS, WINDOW_DAYS, WINDOW_DAYS + 1}

GenericDates == {Strftime(Today0 - WINDOW_DAYS + k) : k \in DateOffsets}

\* every pair of those dates, entry after exit included
GenericRows == GenericDates \X GenericDates

\* the intervals the documentation's worked example names
ScenarioInside == <<(<<2023, 6, 1>>), (<<2023, 6, 30>>)>>

ScenarioBefore == <<(<<2022, 1, 1>>), (<<2022, 1, 10>>)>>

ScenarioStraddle == <<(<<2022, 12, 20>>), (<<2023, 1, 10>>)>>

ScenarioReversed == <<(<<2023, 5, 10>>), (<<2023, 5, 1>>)>>

ScenarioRows == {ScenarioInside, ScenarioBefore, ScenarioStraddle, ScenarioReversed}

Rows == GenericRows \cup ScenarioRows

SeqsUpTo(S, n) == UNION {[1..k -> S] : k \in 0..n}

Files == SeqsUpTo(Rows, MaxTrips)

-----------------------------------------------------------------------------
(* days_in_rolling_window *)

Calls == {1, 2}

IdleFrame ==
    [pc |-> "idle", trips |-> <<>>, reference_date |-> None,
     start_window |-> None, days_count |-> 0, i |-> 0]

\* Enter with a window one day short (364 in place of 365)
EnterShortWindow(ts, ref, now) ==
    LET r == IF ref = None THEN now ELSE ref
    IN  [pc |-> "loop", trips |-> ts, reference_date |-> r,
         start_window |-> r - (WINDOW_DAYS - 1), days_count |-> 0, i |-> 0]

\* lines 20-24: the activation after the prologue; `now` is what
\* datetime.today().date() returns at line 22
Enter(ts, ref, now) ==
    LET r == IF ref = None THEN now ELSE ref
    IN  [pc |-> "loop", trips |-> ts, reference_date |-> r,
         start_window |-> r - WINDOW_DAYS, days_count |-> 0, i |-> 0]

\* Outside with the window's two boundary dates taken as outside
OutsideStrict(entry, exit, sw, ref) == exit <= sw \/ entry >= ref

\* line 28: the trip lies completely outside the window
Outside(entry, exit, sw, ref) == exit < sw \/ entry > ref

\* Overlap that counts the trip's full length, unclipped
OverlapFullLength(entry, exit, sw, ref) == (exit - entry) + 1

\* Overlap that does not clip the trip at the window's first day
OverlapNoClipStart(entry, exit, sw, ref) == (Min(exit, ref) - entry) + 1

\* Overlap that leaves out the + 1 of inclusive counting
OverlapExclusive(entry, exit, sw, ref) == Min(exit, ref) - Max(entry, sw)

\* lines 31-33: what a trip that is not skipped adds to days_count
Overlap(entry, exit, sw, ref) ==
    LET overlap_start == Max(entry, sw)
        overlap_end == Min(exit, ref)
    IN  (overlap_end - overlap_start) + 1

\* LoopBody with `break` in place of `continue`
LoopBodyBreak(fr) ==
    LET entry == fr.trips[fr.i + 1][1]
        exit == fr.trips[fr.i + 1][2]
    IN  IF Outside(entry, exit, fr.start_window, fr.reference_date)
        THEN [fr EXCEPT !.i = Len(fr.trips)]
        ELSE [fr EXCEPT !.i = fr.i + 1,
                        !.days_count = fr.days_count +
                            Overlap(entry, exit, fr.start_window, fr.reference_date)]

\* lines 26-33: one iteration of the for loop
LoopBody(fr) ==
    LET entry == fr.trips[fr.i + 1][1]
        exit == fr.trips[fr.i + 1][2]
    IN  IF Outside(entry, exit, fr.start_window, fr.reference_date)
        THEN [fr EXCEPT !.i = fr.i + 1]
        ELSE [fr EXCEPT !.i = fr.i + 1,
                        !.days_count = fr.days_count +
                            Overlap(entry, exit, fr.start_window, fr.reference_date)]

LoopStep(c) ==
    /\ frames[c].pc = "loop"
    /\ frames[c].i < Len(frames[c].trips)
    /\ frames' = [frames EXCEPT ![c] = LoopBody(frames[c])]
    /\ UNCHANGED mainVars

\* line 35: the loop is exhausted and the function returns
AtReturn(c) == frames[c].pc = "loop" /\ frames[c].i = Len(frames[c].trips)

ReturnFrame(c) == frames' = [frames EXCEPT ![c].pc = "returned"]

-----------------------------------------------------------------------------
(* load_trips, main, create_visualization *)

\* lines 10-18
load_trips(f) == [k \in DOMAIN f |-> <<Strptime(f[k][1]), Strptime(f[k][2])>>]

\* the wall clock passes midnight; only the reads at lines 22 and 139 see
\* the clock, so it is let advance only when one of them is next
Tick ==
    /\ pc \in {"call_days", "read_today"}
    /\ ticks < MaxTicks
    /\ clock' = clock + 1
    /\ ticks' = ticks + 1
    /\ UNCHANGED <<file, pc, trips, days_used, start_window, days_remaining,
                   reference_date, stdout, frames, viz_days_used,
                   viz_past_window_start, summary_text>>

\* line 136
MainLoad ==
    /\ pc = "load"
    /\ trips' = load_trips(file)
    /\ pc' = "call_days"
    /\ UNCHANGED <<clock, ticks, file, days_used, start_window, days_remaining,
                   reference_date, stdout, frames, viz_days_used,
                   viz_past_window_start, summary_text>>

\* line 137, the call: reference_date is left to its default
MainCallDays ==
    /\ pc = "call_days"
    /\ frames' = [frames EXCEPT ![1] = Enter(trips, None, clock)]
    /\ pc' = "in_days"
    /\ UNCHANGED <<clock, ticks, file, trips, days_used, start_window,
                   days_remaining, reference_date, stdout, viz_days_used,
                   viz_past_window_start, summary_text>>

\* line 137, the assignment of the returned pair
MainReturn ==
    /\ pc = "in_days"
    /\ AtReturn(1)
    /\ ReturnFrame(1)
    /\ days_used' = frames[1].days_count
    /\ start_window' = frames[1].start_window
    /\ pc' = "remaining"
    /\ UNCHANGED <<clock, ticks, file, trips, days_remaining, reference_date,
                   stdout, viz_days_used, viz_past_window_start, summary_text>>

\* Remaining clamped at zero
RemainingClamped(used) == Max(0, MAX_DAYS - used)

\* the remaining allowance, as both callers compute it (lines 138 and 53)
Remaining(used) == MAX_DAYS - used

\* line 138
MainRemaining ==
    /\ pc = "remaining"
    /\ days_remaining' = Remaining(days_used)
    /\ pc' = "read_today"
    /\ UNCHANGED <<clock, ticks, file, trips, days_used, start_window,
                   reference_date, stdout, frames, viz_days_used,
                   viz_past_window_start, summary_text>>

\* line 139
MainReadToday ==
    /\ pc = "read_today"
    /\ reference_date' = clock
    /\ pc' = "print"
    /\ UNCHANGED <<clock, ticks, file, trips, days_used, start_window,
                   days_remaining, stdout, frames, viz_days_used,
                   viz_past_window_start, summary_text>>

\* lines 141-145
MainPrint ==
    /\ pc = "print"
    /\ stdout' = Append(stdout,
                    [days_used |-> days_used,
                     days_remaining |-> days_remaining,
                     window_start |-> Strftime(start_window),
                     today |-> Strftime(reference_date)])
    /\ pc' = "call_viz"
    /\ UNCHANGED <<clock, ticks, file, trips, days_used, start_window,
                   days_remaining, reference_date, frames, viz_days_used,
                   viz_past_window_start, summary_text>>

\* line 148 and lines 37-42, the call: reference_date is passed down
VizCallDays ==
    /\ pc = "call_viz"
    /\ frames' = [frames EXCEPT ![2] = Enter(trips, reference_date, clock)]
    /\ pc' = "in_viz_days"
    /\ UNCHANGED <<clock, ticks, file, trips, days_used, start_window,
                   days_remaining, reference_date, stdout, viz_days_used,
                   viz_past_window_start, summary_text>>

\* line 42, the assignment of the returned pair
VizReturn ==
    /\ pc = "in_viz_days"
    /\ AtReturn(2)
    /\ ReturnFrame(2)
    /\ viz_days_used' = frames[2].days_count
    /\ viz_past_window_start' = frames[2].start_window
    /\ pc' = "summary"
    /\ UNCHANGED <<clock, ticks, file, trips, days_used, start_window,
                   days_remaining, reference_date, stdout, summary_text>>

\* lines 49-57
VizSummary ==
    /\ pc = "summary"
    /\ summary_text' = Append(summary_text,
                          [days_used |-> viz_days_used,
                           window_start |-> Strftime(viz_past_window_start),
                           today |-> Strftime(reference_date),
                           days_remaining |-> Remaining(viz_days_used)])
    /\ pc' = "timeline"
    /\ UNCHANGED <<clock, ticks, file, trips, days_used, start_window,
                   days_remaining, reference_date, stdout, frames,
                   viz_days_used, viz_past_window_start>>

\* lines 61-133: the timeline is drawn and saved
VizTimeline ==
    /\ pc = "timeline"
    /\ trips # <<>>
    /\ pc' = "done"
    /\ UNCHANGED <<clock, ticks, file, trips, days_used, start_window,
                   days_remaining, reference_date, stdout, frames,
                   viz_days_used, viz_past_window_start, summary_text>>

\* line 62: min() of an empty list raises ValueError
VizTimelineEmpty ==
    /\ pc = "timeline"
    /\ trips = <<>>
    /\ pc' = "ValueError"
    /\ UNCHANGED <<clock, ticks, file, trips, days_used, start_window,
                   days_remaining, reference_date, stdout, frames,
                   viz_days_used, viz_past_window_start, summary_text>>

MainLoop == pc = "in_days" /\ LoopStep(1)

VizLoop == pc = "in_viz_days" /\ LoopStep(2)

Init ==
    /\ clock = Today0
    /\ ticks = 0
    /\ file \in Files
    /\ pc = "load"
    /\ trips = <<>>
    /\ days_used = 0
    /\ start_window = None
    /\ days_remaining = 0
    /\ reference_date = None
    /\ stdout = <<>>
    /\ frames = [c \in Calls |-> IdleFrame]
    /\ viz_days_used = 0
    /\ viz_past_window_start = None
    /\ summary_text = <<>>

Next ==
    \/ Tick
    \/ MainLoad
    \/ MainCallDays
    \/ MainLoop
    \/ MainReturn
    \/ MainRemaining
    \/ MainReadToday
    \/ MainPrint
    \/ VizCallDays
    \/ VizLoop
    \/ VizReturn
    \/ VizSummary
    \/ VizTimeline
    \/ VizTimelineEmpty

Spec == Init /\ [][Next]_vars

-----------------------------------------------------------------------------
(* Two calls in a row, on the same trips in two orders; the code is       *)
(* synchronous, so the second call starts when the first has returned     *)

RefDates == Today0..(Today0 + MaxTicks)

Permutations(n) == {p \in [1..n -> 1..n] : \A a, b \in 1..n : p[a] = p[b] => a = b}

Permute(ts, p) == [k \in DOMAIN ts |-> ts[p[k]]]

\* a caller's call days_in_rolling_window(ts, reference_date), lines 20-24;
\* the list the call is made on waits in the idle frame
PermCall(c) ==
    /\ pc = "harness"
    /\ frames[c].pc = "idle"
    /\ \A b \in Calls : b < c => frames[b].pc = "returned"
    /\ frames' = [frames EXCEPT ![c] = Enter(frames[c].trips, reference_date, clock)]
    /\ UNCHANGED mainVars

PermLoop(c) == pc = "harness" /\ LoopStep(c)

PermReturn(c) ==
    /\ pc = "harness"
    /\ AtReturn(c)
    /\ ReturnFrame(c)
    /\ UNCHANGED mainVars

InitPerm ==
    /\ clock = Today0
    /\ ticks = 0
    /\ file \in SeqsUpTo(GenericRows, MaxTrips)
    /\ pc = "harness"
    /\ trips = load_trips(file)
    /\ days_used = 0
    /\ start_window = None
    /\ days_remaining = 0
    /\ reference_date \in RefDates
    /\ stdout = <<>>
    /\ \E p \in Permutations(Len(file)) :
          frames = [c \in Calls |->
                      [IdleFrame EXCEPT !.trips =
                          IF c = 1 THEN trips ELSE Permute(trips, p)]]
    /\ viz_days_used = 0
    /\ viz_past_window_start = None
    /\ summary_text = <<>>

NextPerm == \E c \in Calls : PermCall(c) \/ PermLoop(c) \/ PermReturn(c)

SpecPerm == InitPerm /\ [][NextPerm]_vars

-----------------------------------------------------------------------------
(* Properties *)

\* the call at site c has run its prologue
Active(c) == frames[c].pc \in {"loop", "returned"}

Returned(c) == frames[c].pc = "returned"

Reversed(t) == t[1] > t[2]

Valid(ts) == \A k \in DOMAIN ts : ~Reversed(ts[k])

\* no calendar date is covered by two of the intervals
NonOverlapping(ts) ==
    \A j, k \in DOMAIN ts : j < k => (ts[j][2] < ts[k][1] \/ ts[k][2] < ts[j][1])

\* the number of calendar dates d with
\* max(entry, ref - 365) <= d <= min(exit, ref)
DatesInWindow(t, ref) ==
    LET lo == IF t[1] >= ref - 365 THEN t[1] ELSE ref - 365
        hi == IF t[2] <= ref THEN t[2] ELSE ref
    IN  Cardinality(lo..hi)

RECURSIVE SumDatesInWindow(_, _, _)
SumDatesInWindow(ts, n, ref) ==
    IF n = 0 THEN 0
    ELSE SumDatesInWindow(ts, n - 1, ref) + DatesInWindow(ts[n], ref)

\* C1: a call on a trip list that holds an interval with entry > exit ends in
\* the InvalidInterval error and returns no (days_used, window_start) result.
C1_ReversedIntervalRejected ==
    \A c \in Calls : Returned(c) => Valid(frames[c].trips)

\* C4: the running total and the returned days_used are never negative,
\* whatever the trip list (reversed intervals included) and reference date.
C4_DaysUsedNonNegative ==
    \A c \in Calls : Active(c) => frames[c].days_count >= 0

\* C3: for valid intervals the running total after n trips, and so the
\* returned days_used, is the sum over those trips of the number of dates of
\* the trip that lie in [reference_date - 365, reference_date]; intervals are
\* summed one by one, so a date covered by k intervals counts k times.  The
\* first trip alone shows the three shapes: fully inside gives
\* (exit - entry) + 1, fully outside gives 0, entering before the window and
\* leaving inside it gives (exit - window_start) + 1.
C3_SumOfPerIntervalOverlaps ==
    \A c \in Calls :
        (Active(c) /\ Valid(frames[c].trips)) =>
            LET fr == frames[c]
                ref == fr.reference_date
                ws == ref - 365
            IN  /\ fr.days_count = SumDatesInWindow(fr.trips, fr.i, ref)
                /\ Returned(c) => fr.i = Len(fr.trips)
                /\ fr.i = 1 =>
                     LET entry == fr.trips[1][1]
                         exit == fr.trips[1][2]
                     IN  /\ (ws <= entry /\ exit <= ref) =>
                                fr.days_count = (exit - entry) + 1
                         /\ (exit < ws \/ entry > ref) => fr.days_count = 0
                         /\ (entry < ws /\ ws <= exit /\ exit <= ref) =>
                                fr.days_count = (exit - ws) + 1

\* a call has returned a total in which one date was counted twice
C3_Witness ==
    \E c \in Calls :
        /\ Returned(c)
        /\ Valid(frames[c].trips)
        /\ Len(frames[c].trips) = 2
        /\ ~NonOverlapping(frames[c].trips)
        /\ frames[c].trips[1][1] < frames[c].start_window
        /\ frames[c].trips[1][2] > frames[c].start_window
        /\ frames[c].days_count >= 4

\* the reference date of the documentation's worked example
ScenarioToday == Strptime(<<2024, 1, 1>>)

\* the three valid intervals of the worked example
ScenarioTrips == {load_trips(<<r>>)[1] : r \in {ScenarioInside, ScenarioBefore, ScenarioStraddle}}

\* what the worked example says each interval contributes
ScenarioStated(t) ==
    IF t = load_trips(<<ScenarioInside>>)[1] THEN 30
    ELSE IF t = load_trips(<<ScenarioBefore>>)[1] THEN 0
    ELSE 9

\* what each of them contributes
ScenarioCounted(t) ==
    IF t = load_trips(<<ScenarioInside>>)[1] THEN 30
    ELSE IF t = load_trips(<<ScenarioBefore>>)[1] THEN 0
    ELSE 10

RECURSIVE SumStated(_, _)
SumStated(ts, n) == IF n = 0 THEN 0 ELSE SumStated(ts, n - 1) + ScenarioStated(ts[n])

RECURSIVE SumCounted(_, _)
SumCounted(ts, n) == IF n = 0 THEN 0 ELSE SumCounted(ts, n - 1) + ScenarioCounted(ts[n])

\* the call at site c is on the worked example: reference date 2024-01-01
\* and a list made of its three valid intervals
OnScenario(c) ==
    /\ Active(c)
    /\ frames[c].reference_date = ScenarioToday
    /\ \A k \in DOMAIN frames[c].trips : frames[c].trips[k] \in ScenarioTrips

\* C2 as stated: for reference_date 2024-01-01 the window starts on
\* 2023-01-02, (2023-06-01, 2023-06-30) contributes 30 days,
\* (2022-01-01, 2022-01-10) contributes 0 and (2022-12-20, 2023-01-10)
\* contributes 9.
C2_ScenarioAsStated ==
    \A c \in Calls :
        OnScenario(c) =>
            /\ Strftime(frames[c].start_window) = <<2023, 1, 2>>
            /\ frames[c].days_count = SumStated(frames[c].trips, frames[c].i)

\* C2 amended: for reference_date 2024-01-01 the window starts on
\* 2023-01-01, (2023-06-01, 2023-06-30) contributes 30 days,
\* (2022-01-01, 2022-01-10) contributes 0 and (2022-12-20, 2023-01-10)
\* overlaps the window on [2023-01-01, 2023-01-10] and contributes 10.
C2_ScenarioAmended ==
    \A c \in Calls :
        OnScenario(c) =>
            /\ Strftime(frames[c].start_window) = <<2023, 1, 1>>
            /\ frames[c].days_count = SumCounted(frames[c].trips, frames[c].i)
            /\ \A k \in 1..frames[c].i :
                 frames[c].trips[k] = load_trips(<<ScenarioStraddle>>)[1] =>
                    /\ Max(frames[c].trips[k][1], frames[c].start_window) =
                          Strptime(<<2023, 1, 1>>)
                    /\ Min(frames[c].trips[k][2], frames[c].reference_date) =
                          Strptime(<<2023, 1, 10>>)

\* the call on the straddling and the inside interval has returned 40
C2_Witness ==
    \E c \in Calls :
        /\ OnScenario(c)
        /\ Returned(c)
        /\ frames[c].trips = load_trips(<<ScenarioStraddle, ScenarioInside>>)
        /\ frames[c].days_count = 40

\* C5: the window's boundary dates are inside it.  Whenever one iteration
\* of the loop handles a valid interval: exit = window_start adds exactly 1,
\* entry = reference_date adds exactly 1, a single-day interval within
\* [window_start, reference_date] adds exactly 1, and exit = window_start - 1
\* or entry = reference_date + 1 adds 0.
C5_BoundaryDatesInside ==
    [][\A c \in Calls :
          (frames[c].pc = "loop" /\ frames'[c].i = frames[c].i + 1) =>
              LET t == frames[c].trips[frames[c].i + 1]
                  ref == frames[c].reference_date
                  ws == ref - 365
                  added == frames'[c].days_count - frames[c].days_count
              IN  ~Reversed(t) =>
                    /\ t[2] = ws => added = 1
                    /\ t[1] = ref => added = 1
                    /\ (t[1] = t[2] /\ ws <= t[1] /\ t[1] <= ref) => added = 1
                    /\ t[2] = ws - 1 => added = 0
                    /\ t[1] = ref + 1 => added = 0]_vars

\* a returned call whose two trips touched the window's two boundary dates
\* only: one ended on window_start, the other began on reference_date
C5_Witness ==
    \E c \in Calls :
        /\ Returned(c)
        /\ Len(frames[c].trips) = 2
        /\ Valid(frames[c].trips)
        /\ frames[c].trips[1][1] < frames[c].trips[1][2]
        /\ frames[c].trips[1][2] = frames[c].start_window
        /\ frames[c].trips[2][1] = frames[c].reference_date
        /\ frames[c].trips[2][1] < frames[c].trips[2][2]
        /\ frames[c].days_count = 2

IsPermutationOf(a, b) ==
    /\ Len(a) = Len(b)
    /\ \E p \in Permutations(Len(a)) : b = Permute(a, p)

\* C6: two calls with the same reference date, on a trip list and on any
\* permutation of it, return the same days_used and the same window_start.
C6_OrderIndependent ==
    (/\ Returned(1)
     /\ Returned(2)
     /\ frames[1].reference_date = frames[2].reference_date
     /\ IsPermutationOf(frames[1].trips, frames[2].trips)) =>
        /\ frames[1].days_count = frames[2].days_count
        /\ frames[1].start_window = frames[2].start_window

\* both calls have returned, on different orders of two trips of which the
\* first lies outside the window and the second inside
C6_Witness ==
    /\ Returned(1)
    /\ Returned(2)
    /\ frames[1].trips # frames[2].trips
    /\ IsPermutationOf(frames[1].trips, frames[2].trips)
    /\ frames[1].trips[1][2] < frames[1].start_window
    /\ frames[1].days_count > 0

\* C7: the window start a call computes and returns is reference_date - 365
\* days whatever the trip list, main receives exactly that, and a call on
\* the empty list returns (0, reference_date - 365 days).
C7_WindowStart ==
    /\ \A c \in Calls :
          Active(c) =>
              /\ frames[c].start_window = frames[c].reference_date - 365
              /\ (Returned(c) /\ frames[c].trips = <<>>) => frames[c].days_count = 0
    /\ Returned(1) =>
          /\ start_window = frames[1].reference_date - 365
          /\ days_used = frames[1].days_count

\* main has received (0, 2023-01-01) from its call on the empty list
C7_Witness ==
    /\ Returned(1)
    /\ frames[1].trips = <<>>
    /\ frames[1].reference_date = Today0
    /\ days_used = 0
    /\ Strftime(start_window) = <<2023, 1, 1>>

\* C8: the remaining allowance main prints and the one in the summary text
\* are each exactly 180 minus the days_used the respective call returned,
\* negative when days_used > 180, never clamped to 0 nor made positive.
C8_RemainingNotClamped ==
    /\ \A k \in DOMAIN stdout :
          /\ stdout[k].days_used = frames[1].days_count
          /\ stdout[k].days_remaining = 180 - stdout[k].days_used
    /\ \A k \in DOMAIN summary_text :
          /\ summary_text[k].days_used = frames[2].days_count
          /\ summary_text[k].days_remaining = 180 - summary_text[k].days_used

\* both texts show a negative allowance for a days_used above 180
C8_Witness ==
    /\ Len(stdout) = 1
    /\ Len(summary_text) = 1
    /\ stdout[1].days_used > 180
    /\ stdout[1].days_remaining < 0
    /\ summary_text[1].days_used > 180
    /\ summary_text[1].days_remaining < 0

\* C9: in one run of main the date printed as today's and passed to
\* create_visualization is the date days_in_rolling_window computed the
\* printed days_used and window start from: the printed window start is the
\* printed today's date minus 365 days, and the days_used main prints is the
\* days_used of the summary text.
C9_OneReferenceDate ==
    /\ \A k \in DOMAIN stdout :
          /\ frames[1].reference_date = reference_date
          /\ Strptime(stdout[k].window_start) = Strptime(stdout[k].today) - 365
    /\ \A k \in DOMAIN summary_text :
          /\ summary_text[k].today = stdout[1].today
          /\ summary_text[k].days_used = stdout[1].days_used

\* C10: for valid, pairwise non-overlapping intervals the running total and
\* the returned days_used never exceed 366, the number of dates in
\* [reference_date - 365, reference_date].
C10_AtMostWindowLength ==
    \A c \in Calls :
        (Active(c) /\ Valid(frames[c].trips) /\ NonOverlapping(frames[c].trips)) =>
            frames[c].days_count <= 366

\* a single interval covering the whole window has been counted as 366
C10_Witness ==
    \E c \in Calls :
        /\ Returned(c)
        /\ Len(frames[c].trips) = 1
        /\ frames[c].trips[1][1] <= frames[c].start_window
        /\ frames[c].trips[1][2] >= frames[c].reference_date
        /\ frames[c].days_count = 366

=============================================================================
